---- MODULE Spec2Model ----
(***************************************************************************)
(* Voice payment front-end (lunef-bc-spoon): the PaymentAgent session      *)
(* state machine, its confirmation classifier and the six backend tool     *)
(* adapters.  Text is modelled as sequences of one-character strings so    *)
(* that lower-casing, trimming and substring search are computed.          *)
(***************************************************************************)
EXTENDS Integers, Sequences, FiniteSets, TLC

\* ------------------------------------------------------------------------
\* Bounds of the model
\* ------------------------------------------------------------------------
\* longest generated utterance over Alphabet (classifier specification)
MaxLen == 4
\* tool invocations the agent may make while it runs one intent
MaxToolCalls == 2
\* longest agent response, in fragments
MaxResp == 2

None == "None"

\* ------------------------------------------------------------------------
\* Text helpers (Python str.lower, str.strip, str.lstrip, "in")
\* ------------------------------------------------------------------------
UpperChars ==
    << "A","B","C","D","E","F","G","H","I","J","K","L","M",
       "N","O","P","Q","R","S","T","U","V","W","X","Y","Z" >>

LowerChars ==
    << "a","b","c","d","e","f","g","h","i","j","k","l","m",
       "n","o","p","q","r","s","t","u","v","w","x","y","z" >>

Whitespace == { " ", "\t", "\n" }

LowerChar(c) ==
    IF \E i \in 1..Len(UpperChars) : UpperChars[i] = c
    THEN LowerChars[CHOOSE i \in 1..Len(UpperChars) : UpperChars[i] = c]
    ELSE c

UpperChar(c) ==
    IF \E i \in 1..Len(LowerChars) : LowerChars[i] = c
    THEN UpperChars[CHOOSE i \in 1..Len(LowerChars) : LowerChars[i] = c]
    ELSE c

Lower(s) == [i \in 1..Len(s) |-> LowerChar(s[i])]

Upper(s) == [i \in 1..Len(s) |-> UpperChar(s[i])]

RECURSIVE LStripSet(_, _)
LStripSet(s, chars) ==
    IF s # <<>> /\ Head(s) \in chars THEN LStripSet(Tail(s), chars) ELSE s

RECURSIVE RStripSet(_, _)
RStripSet(s, chars) ==
    IF s # <<>> /\ s[Len(s)] \in chars
    THEN RStripSet(SubSeq(s, 1, Len(s) - 1), chars)
    ELSE s

Strip(s) == RStripSet(LStripSet(s, Whitespace), Whitespace)

\* Python "p in s" for strings
Contains(p, s) ==
    \E i \in 0..(Len(s) - Len(p)) : SubSeq(s, i + 1, i + Len(p)) = p

\* ------------------------------------------------------------------------
\* Confirmation classifier (PaymentAgent._check_confirmation)
\* ------------------------------------------------------------------------
confirm_phrases ==
    << <<"y","e","s">>,
       <<"y","e","a","h">>,
       <<"y","e","p">>,
       <<"y","u","p">>,
       <<"c","o","n","f","i","r","m">>,
       <<"c","o","n","f","i","r","m","e","d">>,
       <<"d","o"," ","i","t">>,
       <<"s","e","n","d"," ","i","t">>,
       <<"g","o"," ","a","h","e","a","d">>,
       <<"p","r","o","c","e","e","d">>,
       <<"a","p","p","r","o","v","e">>,
       <<"t","h","a","t","'","s"," ","r","i","g","h","t">>,
       <<"c","o","r","r","e","c","t">>,
       <<"o","k">>,
       <<"o","k","a","y">>,
       <<"s","u","r","e">> >>

cancel_phrases ==
    << <<"n","o">>,
       <<"n","o","p","e">>,
       <<"c","a","n","c","e","l">>,
       <<"s","t","o","p">>,
       <<"w","a","i","t">>,
       <<"d","o","n","'","t">>,
       <<"a","b","o","r","t">>,
       <<"n","e","v","e","r","m","i","n","d">>,
       <<"n","e","v","e","r"," ","m","i","n","d">>,
       <<"h","o","l","d"," ","o","n">> >>

\* "for phrase in phrases: if phrase in text: return ..." from index i on
RECURSIVE AnyPhraseFrom(_, _, _)
AnyPhraseFrom(phrases, i, text) ==
    IF i > Len(phrases) THEN FALSE
    ELSE IF Contains(phrases[i], text) THEN TRUE
    ELSE AnyPhraseFrom(phrases, i + 1, text)

\* cancel phrases looked at before confirm phrases
check_confirmation_cancel_first(transcript) ==
    LET transcript_lower == Strip(Lower(transcript))
    IN  IF AnyPhraseFrom(cancel_phrases, 1, transcript_lower) THEN "cancelled"
        ELSE IF AnyPhraseFrom(confirm_phrases, 1, transcript_lower) THEN "confirmed"
        ELSE "unclear"

\* no match in either list taken for a cancellation
check_confirmation_no_unclear(transcript) ==
    LET transcript_lower == Strip(Lower(transcript))
    IN  IF AnyPhraseFrom(confirm_phrases, 1, transcript_lower) THEN "confirmed"
        ELSE "cancelled"

check_confirmation(transcript) ==
    LET transcript_lower == Strip(Lower(transcript))
    IN  IF AnyPhraseFrom(confirm_phrases, 1, transcript_lower) THEN "confirmed"
        ELSE IF AnyPhraseFrom(cancel_phrases, 1, transcript_lower) THEN "cancelled"
        ELSE "unclear"

\* ------------------------------------------------------------------------
\* Utterances offered to the session
\* ------------------------------------------------------------------------
Corpus ==
    { <<>>,
      <<"y","e","s">>,
      <<" ","Y","E","S","\t">>,
      <<"Y","e","s",","," ","c","o","n","f","i","r","m">>,
      <<"n","o">>,
      <<"C","a","n","c","e","l">>,
      <<"o","k","a","y"," ","n","o">>,
      <<"N","O",","," ","s","t","o","p","."," ","Y","e","s">>,
      <<"n","o","t"," ","s","u","r","e">>,
      <<"I"," ","d","o","n","'","t"," ","k","n","o","w">>,
      <<"h","m","m">>,
      <<"S","e","n","d"," ","2","0","0"," ","p","o","u","n","d","s"," ","t","o"," ","@","a","l","i","c","e">>,
      <<"W","h","a","t","'","s"," ","m","y"," ","b","a","l","a","n","c","e","?">> }

\* letters from which every short utterance is generated
Alphabet == { "o", "k", "N", "n", "O", " " }

RECURSIVE StringsUpTo(_)
StringsUpTo(n) ==
    IF n = 0 THEN { <<>> }
    ELSE LET shorter == StringsUpTo(n - 1)
         IN  shorter \cup { Append(s, c) : s \in shorter, c \in Alphabet }

Generated == StringsUpTo(MaxLen)

\* ------------------------------------------------------------------------
\* Identifiers
\* ------------------------------------------------------------------------
\* the user's UUID, given to PaymentAgent.__init__ and sent to the agent
UserId == "550e8400-user"
\* server-issued preview ids that look like UUIDs
PreviewIds == { "p1-uuid", "p2-uuid" }
\* a server-issued preview id that is an opaque string, not UUID-shaped
OpaqueIds == { "q1-opaque" }
AllIds == { UserId } \cup PreviewIds \cup OpaqueIds
\* uuid_pattern of _extract_preview_id
IsUuidShaped(x) == x \in ({ UserId } \cup PreviewIds)
\* values of the main field of a backend answer (for execute: the tx_hash)
TxHashes == { "0xaaa", "0xbbb" }

\* ------------------------------------------------------------------------
\* The backend, as the tools see it: one answer per request
\* ------------------------------------------------------------------------
StatusCodes == { 200, 201, 400, 402, 403, 404, 409, 429, 500 }

\* body of an HTTP answer: not JSON at all, JSON that is no object, an object
\* without the expected fields, an object with them (val: the main field)
\* the main field of a full body: tx_hash, preview_id, address, ...
BodyValues == TxHashes \cup { "p1-uuid" }

HttpAnswers ==
    [ kind : { "http" }, code : StatusCodes,
      body : { "notjson", "nonobject", "empty" }, val : { None } ]
    \cup
    [ kind : { "http" }, code : StatusCodes,
      body : { "full" }, val : BodyValues ]

\* httpx.TimeoutException, httpx.RequestError (its text with or without a
\* double quote in it)
TransportAnswers ==
    [ kind : { "timeout", "neterr", "neterr_quote" }, code : { 0 },
      body : { None }, val : { None } ]

Answers == HttpAnswers \cup TransportAnswers

\* ------------------------------------------------------------------------
\* What a tool gives back: the JSON object its string parses to ("json"), a
\* string that is not valid JSON ("text"), or an exception that leaves
\* execute() ("raise").  net: outbound requests made.
\* ------------------------------------------------------------------------
Out(t, success, error, warning, status, val, code, tag, exc, net) ==
    [ t |-> t, success |-> success, error |-> error, warning |-> warning,
      status |-> status, val |-> val, code |-> code, tag |-> tag,
      exc |-> exc, net |-> net ]

ErrorOut(msg, code, net) ==
    Out("json", FALSE, msg, None, None, None, code, <<>>, None, net)

RaiseOut(exc) ==
    Out("raise", FALSE, None, None, None, None, 0, <<>>, exc, 1)

\* f'{{"error": "Network error: {str(e)}"}}': valid JSON unless str(e)
\* holds a double quote
NetworkErrorOut(resp) ==
    IF resp.kind = "neterr_quote"
    THEN Out("text", FALSE, None, None, None, None, 0, <<>>, None, 1)
    ELSE ErrorOut("Network error", 0, 1)

\* response.json() followed by data.get(...): the exception, if any
JsonFailure(resp) ==
    IF resp.body = "notjson" THEN "JSONDecodeError"
    ELSE IF resp.body = "nonobject" THEN "AttributeError"
    ELSE None

\* ------------------------------------------------------------------------
\* PaymentExecuteTool.execute
\* ------------------------------------------------------------------------
\* a 409 answer taken for a success
execute_payment_409_ok(user_id, preview_id, resp) ==
    IF resp.kind = "http" /\ resp.code \in { 200, 409 }
    THEN Out("json", TRUE, None, None, "confirmed", resp.val, 0, <<>>, None, 1)
    ELSE ErrorOut("Payment failed: <status>", resp.code, 1)

execute_payment(user_id, preview_id, resp) ==
    IF resp.kind = "timeout" THEN
        Out("json", FALSE, None, "Transaction may still be processing",
            None, None, 0, <<>>, None, 1)
    ELSE IF resp.kind # "http" THEN NetworkErrorOut(resp)
    ELSE IF resp.code = 200 THEN
        IF JsonFailure(resp) # None THEN RaiseOut(JsonFailure(resp))
        \* data.get('tx_hash')[:16] with no tx_hash: None[:16]
        ELSE IF resp.body = "empty" THEN RaiseOut("TypeError")
        ELSE Out("json", TRUE, None, None, "confirmed", resp.val, 0, <<>>, None, 1)
    ELSE IF resp.code = 404 THEN
        ErrorOut("Payment preview expired or not found. Please start a new payment.", 0, 1)
    ELSE IF resp.code = 403 THEN
        ErrorOut("Insufficient balance or payment not confirmed", 0, 1)
    ELSE IF resp.code = 409 THEN ErrorOut("Payment already executed", 0, 1)
    ELSE ErrorOut("Payment failed: <status>", resp.code, 1)

\* ------------------------------------------------------------------------
\* PaymentPreviewTool.execute
\* ------------------------------------------------------------------------
create_payment_preview(user_id, fiat_currency, resp) ==
    IF resp.kind = "timeout" THEN ErrorOut("Payment preview timed out", 0, 1)
    ELSE IF resp.kind # "http" THEN NetworkErrorOut(resp)
    ELSE IF resp.code = 200 THEN
        IF JsonFailure(resp) # None THEN RaiseOut(JsonFailure(resp))
        ELSE Out("json", FALSE, None, None, "awaiting_confirmation",
                 resp.val, 0, <<>>, None, 1)
    ELSE IF resp.code = 400 THEN
        IF JsonFailure(resp) # None THEN RaiseOut(JsonFailure(resp))
        ELSE IF resp.body = "empty" THEN ErrorOut("Invalid payment request", 0, 1)
        ELSE ErrorOut("<backend message>", 0, 1)
    ELSE IF resp.code = 403 THEN ErrorOut("Insufficient balance for this payment", 0, 1)
    ELSE ErrorOut("Failed to create preview: <status>", resp.code, 1)

\* ------------------------------------------------------------------------
\* FXConversionTool.execute
\* ------------------------------------------------------------------------
SupportedCurrencies ==
    { <<"G","B","P">>, <<"E","U","R">>, <<"U","S","D">>, <<"C","H","F">> }

\* the request made before the arguments are validated
convert_fiat_to_gas_late_validation(amount, currency, resp) ==
    IF Upper(currency) \notin SupportedCurrencies
    THEN ErrorOut("Unsupported currency", 0, 1)
    ELSE IF amount <= 0 THEN ErrorOut("Amount must be positive", 0, 1)
    ELSE IF resp.kind = "timeout" THEN ErrorOut("Conversion service timed out", 0, 1)
    ELSE IF resp.kind # "http" THEN NetworkErrorOut(resp)
    ELSE IF resp.code = 200 THEN
        IF JsonFailure(resp) # None THEN RaiseOut(JsonFailure(resp))
        ELSE Out("json", FALSE, None, None, None, resp.val, 0, <<>>, None, 1)
    ELSE ErrorOut("Conversion failed: <status>", resp.code, 1)

convert_fiat_to_gas(amount, currency, resp) ==
    IF Upper(currency) \notin SupportedCurrencies
    THEN ErrorOut("Unsupported currency", 0, 0)
    ELSE IF amount <= 0 THEN ErrorOut("Amount must be positive", 0, 0)
    ELSE IF resp.kind = "timeout" THEN ErrorOut("Conversion service timed out", 0, 1)
    ELSE IF resp.kind # "http" THEN NetworkErrorOut(resp)
    ELSE IF resp.code = 200 THEN
        IF JsonFailure(resp) # None THEN RaiseOut(JsonFailure(resp))
        ELSE Out("json", FALSE, None, None, None, resp.val, 0, <<>>, None, 1)
    ELSE ErrorOut("Conversion failed: <status>", resp.code, 1)

\* ------------------------------------------------------------------------
\* BalanceCheckTool.execute
\* ------------------------------------------------------------------------
\* every 2xx answer taken for a success
check_balance_2xx_ok(user_id, resp) ==
    IF resp.kind = "timeout"
    THEN ErrorOut("Balance check timed out. The blockchain may be slow.", 0, 1)
    ELSE IF resp.kind # "http" THEN NetworkErrorOut(resp)
    ELSE IF resp.code \in 200..299 THEN
        IF JsonFailure(resp) # None THEN RaiseOut(JsonFailure(resp))
        ELSE Out("json", FALSE, None, None, None, resp.val, 0, <<>>, None, 1)
    ELSE IF resp.code = 404
    THEN ErrorOut("Wallet not found. Please create a wallet first.", 0, 1)
    ELSE ErrorOut("Failed to check balance: <status>", resp.code, 1)

check_balance(user_id, resp) ==
    IF resp.kind = "timeout"
    THEN ErrorOut("Balance check timed out. The blockchain may be slow.", 0, 1)
    ELSE IF resp.kind # "http" THEN NetworkErrorOut(resp)
    ELSE IF resp.code = 200 THEN
        IF JsonFailure(resp) # None THEN RaiseOut(JsonFailure(resp))
        ELSE Out("json", FALSE, None, None, None, resp.val, 0, <<>>, None, 1)
    ELSE IF resp.code = 404
    THEN ErrorOut("Wallet not found. Please create a wallet first.", 0, 1)
    ELSE ErrorOut("Failed to check balance: <status>", resp.code, 1)

\* ------------------------------------------------------------------------
\* TagResolverTool.execute
\* ------------------------------------------------------------------------
\* tag.lstrip("@").lower().strip()
clean_tag(tag) == Strip(Lower(LStripSet(tag, { "@" })))

resolve_tag(tag, resp) ==
    IF clean_tag(tag) = <<>> THEN ErrorOut("Empty tag provided", 0, 0)
    ELSE IF resp.kind = "timeout"
    THEN ErrorOut("Request timed out. Please try again.", 0, 1)
    ELSE IF resp.kind # "http" THEN NetworkErrorOut(resp)
    ELSE IF resp.code = 200 THEN
        IF JsonFailure(resp) # None THEN RaiseOut(JsonFailure(resp))
        ELSE Out("json", FALSE, None, None, None, resp.val, 0,
                 <<"@">> \o clean_tag(tag), None, 1)
    ELSE IF resp.code = 404
    THEN Out("json", FALSE, "Tag not found. Please check the spelling.", None,
             None, None, 0, <<"@">> \o clean_tag(tag), None, 1)
    ELSE ErrorOut("Failed to resolve tag: <status>", resp.code, 1)

\* ------------------------------------------------------------------------
\* VideoGenerationTool.execute
\* ------------------------------------------------------------------------
generate_video(user_id, duration_seconds, resp) ==
    IF resp.kind = "timeout"
    THEN Out("json", FALSE, None, None, "processing", None, 0, <<>>, None, 1)
    ELSE IF resp.kind # "http" THEN NetworkErrorOut(resp)
    ELSE IF resp.code = 200 THEN
        IF JsonFailure(resp) # None THEN RaiseOut(JsonFailure(resp))
        ELSE Out("json", TRUE, None, None, "ready", resp.val, 0, <<>>, None, 1)
    ELSE IF resp.code = 402 THEN ErrorOut("Payment required", 0, 1)
    ELSE IF resp.code = 403
    THEN ErrorOut("Insufficient GAS balance for video generation", 0, 1)
    ELSE IF resp.code = 429
    THEN ErrorOut("Rate limited. Please try again in a few minutes.", 0, 1)
    ELSE ErrorOut("Video generation failed: <status>", resp.code, 1)

\* ------------------------------------------------------------------------
\* Tool invocations the agent can make (PaymentAgent.avaliable_tools)
\* ------------------------------------------------------------------------
Tags ==
    { <<"@","A","l","i","c","e">>, <<"a","l","i","c","e">>,
      <<" ","@","a","l","i","c","e">>, <<"@","@","B","o","b"," ">>,
      <<"@">>, <<>> }

Currencies == { <<"G","B","P">>, <<"u","s","d">>, <<"x","y","z">> }

Amounts == { -1, 0, 200 }

Call(tool, user_id, preview_id, tag, amount, currency) ==
    [ tool |-> tool, user_id |-> user_id, preview_id |-> preview_id,
      tag |-> tag, amount |-> amount, currency |-> currency ]

ToolCalls ==
    { Call("resolve_tag", None, None, tg, 0, <<>>) : tg \in Tags }
    \cup { Call("convert_fiat_to_gas", None, None, <<>>, a, c) :
             a \in Amounts, c \in Currencies }
    \cup { Call("check_balance", UserId, None, <<>>, 0, <<>>) }
    \cup { Call("create_payment_preview", UserId, None, <<>>, 200, <<"G","B","P">>) }
    \cup { Call("execute_payment", UserId, id, <<>>, 0, <<>>) : id \in AllIds }
    \cup { Call("generate_video", UserId, None, <<>>, 0, <<>>) }

\* ToolManager dispatch by tool name
Invoke(call, resp) ==
    CASE call.tool = "resolve_tag" -> resolve_tag(call.tag, resp)
      [] call.tool = "convert_fiat_to_gas" ->
             convert_fiat_to_gas(call.amount, call.currency, resp)
      [] call.tool = "check_balance" -> check_balance(call.user_id, resp)
      [] call.tool = "create_payment_preview" ->
             create_payment_preview(call.user_id, call.currency, resp)
      [] call.tool = "execute_payment" ->
             execute_payment(call.user_id, call.preview_id, resp)
      [] call.tool = "generate_video" -> generate_video(call.user_id, 10, resp)

\* ------------------------------------------------------------------------
\* The agent's textual response (the return value of ToolCallAgent.run), as
\* a sequence of fragments: plain words, words containing "confirm", a
\* UUID-shaped token, a {...} fragment with its preview_id entry
\* ------------------------------------------------------------------------
JsonValues == { "p1-uuid", "q1-opaque", "", None, "<invalid json>" }

Fragments ==
    { [ k |-> "words", v |-> None ], [ k |-> "confirm", v |-> None ] }
    \cup [ k : { "uuid" }, v : { UserId } \cup PreviewIds ]
    \cup [ k : { "json" }, v : JsonValues ]

RECURSIVE ResponsesUpTo(_)
ResponsesUpTo(n) ==
    IF n = 0 THEN { <<>> }
    ELSE LET shorter == ResponsesUpTo(n - 1)
         IN  shorter \cup { Append(r, f) : r \in shorter, f \in Fragments }

AgentResponses == ResponsesUpTo(MaxResp)

\* "awaiting_confirmation" in response.lower() or "confirm" in response.lower()
HasConfirmMarker(response) ==
    \E i \in 1..Len(response) : response[i].k = "confirm"

\* the fragment holds text matching uuid_pattern
FragmentUuid(f) ==
    IF f.k = "uuid" THEN f.v
    ELSE IF f.k = "json" /\ IsUuidShaped(f.v) THEN f.v
    ELSE None

\* re.search: the first match from position i on
RECURSIVE FirstUuidFrom(_, _)
FirstUuidFrom(response, i) ==
    IF i > Len(response) THEN None
    ELSE IF FragmentUuid(response[i]) # None THEN FragmentUuid(response[i])
    ELSE FirstUuidFrom(response, i + 1)

RECURSIVE FirstJsonFrom(_, _)
FirstJsonFrom(response, i) ==
    IF i > Len(response) THEN None
    ELSE IF response[i].k = "json" THEN
        \* json.loads raising JSONDecodeError is caught: None
        (IF response[i].v = "<invalid json>" THEN None ELSE response[i].v)
    ELSE FirstJsonFrom(response, i + 1)

\* the JSON fragment is looked at before the UUID pattern
extract_preview_id_json_first(response) ==
    IF FirstJsonFrom(response, 1) # None THEN FirstJsonFrom(response, 1)
    ELSE FirstUuidFrom(response, 1)

extract_preview_id(response) ==
    IF FirstUuidFrom(response, 1) # None THEN FirstUuidFrom(response, 1)
    ELSE FirstJsonFrom(response, 1)

\* Python truthiness of an Optional[str]
Truthy(x) == x # None /\ x # ""

\* ------------------------------------------------------------------------
\* State
\* ------------------------------------------------------------------------
\* the two callers that may have a process_voice_input call under way
Callers == { 1, 2 }

VARIABLES
    pending_preview_id, \* PaymentAgent.pending_preview_id (None or an id)
    pc,                 \* per caller: where its process_voice_input call is
    turn,               \* per caller: the call under way or last made
    result,             \* per caller: what its last call returned (or raised)
    lastExec,           \* the latest execute_payment invocation
    lastTool            \* the latest tool invocation made on its own

vars == << pending_preview_id, pc, turn, result, lastExec, lastTool >>

NoOut == Out("none", FALSE, None, None, None, None, 0, <<>>, None, 0)

NoAnswer == [ kind |-> "none", code |-> 0, body |-> None, val |-> None ]

\* utt: the transcript; start: pending_preview_id when the call began;
\* status: what _check_confirmation returned ("none": not consulted);
\* sent: the preview id submitted; net: outbound requests of the call;
\* execs / tools: execute_payment and tool invocations of the call;
\* agent: whether the agent was run; resp: the answer to the submit
NoTurn ==
    [ utt |-> <<>>, start |-> None, status |-> "none", sent |-> None,
      net |-> 0, execs |-> 0, tools |-> 0, agent |-> FALSE, resp |-> NoAnswer,
      created |-> { }, op |-> "none" ]

Result(action, response, detail, tx_hash, preview_id, data) ==
    [ action |-> action, response |-> response, detail |-> detail,
      tx_hash |-> tx_hash, preview_id |-> preview_id, data |-> data ]

NoResult == Result("none", None, None, None, None, NoOut)

NoExec ==
    [ by |-> "none", user_id |-> None, preview_id |-> None,
      pending |-> None, status |-> "none" ]

NoToolInvocation ==
    [ call |-> Call("none", None, None, <<>>, 0, <<>>), resp |-> NoAnswer,
      out |-> NoOut ]

Init ==
    /\ pending_preview_id = None
    /\ pc = [t \in Callers |-> "ready"]
    /\ turn = [t \in Callers |-> NoTurn]
    /\ result = [t \in Callers |-> NoResult]
    /\ lastExec = NoExec
    /\ lastTool = NoToolInvocation

\* ------------------------------------------------------------------------
\* PaymentAgent._execute_pending_payment
\* ------------------------------------------------------------------------
\* the success result without the transaction hash
execute_result_no_hash(out) ==
    IF out.t = "text" THEN
        Result("error", "Payment status unclear. Please check your transaction history.",
               None, None, None, NoOut)
    ELSE IF out.success THEN
        Result("confirmed", "Payment sent successfully!", None, None, None, NoOut)
    ELSE
        Result("error", "Payment failed: ",
               IF out.error # None THEN out.error ELSE "Unknown error",
               None, None, out)

\* lines 243-266: the session result made from the tool's string
execute_result(out) ==
    IF out.t = "text" THEN
        \* json.loads raises JSONDecodeError
        Result("error", "Payment status unclear. Please check your transaction history.",
               None, None, None, NoOut)
    ELSE IF out.success THEN
        Result("confirmed", "Payment sent successfully!", None, out.val, None, NoOut)
    ELSE
        Result("error", "Payment failed: ",
               IF out.error # None THEN out.error ELSE "Unknown error",
               None, None, out)

\* the submit without the guard of lines 227-231
execute_pending_payment_start_unguarded(t, tr) ==
    /\ pc' = [pc EXCEPT ![t] = "exec_wait"]
    /\ turn' = [turn EXCEPT ![t] =
           [tr EXCEPT !.sent = pending_preview_id, !.net = 1, !.execs = 1]]
    /\ lastExec' = [ by |-> "session", user_id |-> UserId,
                     preview_id |-> pending_preview_id,
                     pending |-> pending_preview_id, status |-> tr.status ]
    /\ result' = [result EXCEPT ![t] = NoResult]
    /\ UNCHANGED << pending_preview_id, lastTool >>

\* lines 227-238: the guard, then the submit of the pending preview;
\* tr is the record of the call so far
execute_pending_payment_start(t, tr) ==
    IF ~Truthy(pending_preview_id) THEN
        /\ result' = [result EXCEPT ![t] =
               Result("error", "No pending payment to execute.", None, None, None, NoOut)]
        /\ turn' = [turn EXCEPT ![t] = tr]
        /\ UNCHANGED << pending_preview_id, pc, lastExec, lastTool >>
    ELSE
        /\ pc' = [pc EXCEPT ![t] = "exec_wait"]
        /\ turn' = [turn EXCEPT ![t] =
               [tr EXCEPT !.sent = pending_preview_id, !.net = 1, !.execs = 1]]
        /\ lastExec' = [ by |-> "session", user_id |-> UserId,
                         preview_id |-> pending_preview_id,
                         pending |-> pending_preview_id, status |-> tr.status ]
        /\ result' = [result EXCEPT ![t] = NoResult]
        /\ UNCHANGED << pending_preview_id, lastTool >>

\* lines 235-266: the tool's answer arrives; the exception of a raising tool
\* leaves the method before line 241
execute_pending_payment_return(t, resp) ==
    /\ pc[t] = "exec_wait"
    /\ LET out == execute_payment(UserId, turn[t].sent, resp)
       IN  /\ pc' = [pc EXCEPT ![t] = "ready"]
           /\ turn' = [turn EXCEPT ![t].resp = resp]
           /\ IF out.t = "raise"
              THEN /\ result' = [result EXCEPT ![t] =
                          Result("raised", out.exc, None, None, None, NoOut)]
                   /\ UNCHANGED pending_preview_id
              ELSE /\ result' = [result EXCEPT ![t] = execute_result(out)]
                   /\ pending_preview_id' = None
    /\ UNCHANGED << lastExec, lastTool >>

\* _execute_pending_payment called on its own
execute_pending_payment(t) ==
    /\ pc[t] = "ready"
    /\ execute_pending_payment_start(t,
           [NoTurn EXCEPT !.start = pending_preview_id,
                          !.op = "_execute_pending_payment"])

\* ------------------------------------------------------------------------
\* PaymentAgent.process_voice_input
\* ------------------------------------------------------------------------
\* the cancel branch without line 125
after_cancel_keep(pending) == pending

\* line 125
after_cancel(pending) == None

\* the unclear branch dropping the pending preview
after_unclear_clear(pending) == None

\* lines 131-135: nothing is assigned
after_unclear(pending) == pending

\* every utterance taken for a new intent
awaiting_confirmation_never(pending) == FALSE

\* line 116: if self.pending_preview_id
awaiting_confirmation(pending) == Truthy(pending)

\* lines 115-140: up to the first await
process_voice_input(t, transcript) ==
    /\ pc[t] = "ready"
    /\ LET tr0 == [NoTurn EXCEPT !.utt = transcript,
                                 !.start = pending_preview_id,
                                 !.op = "process_voice_input"]
       IN  IF awaiting_confirmation(pending_preview_id) THEN
               LET confirmation_status == check_confirmation(transcript)
                   tr == [tr0 EXCEPT !.status = confirmation_status]
               IN  IF confirmation_status = "confirmed" THEN
                       execute_pending_payment_start(t, tr)
                   ELSE IF confirmation_status = "cancelled" THEN
                       /\ pending_preview_id' = after_cancel(pending_preview_id)
                       /\ result' = [result EXCEPT ![t] =
                              Result("cancelled", "Payment cancelled.",
                                     None, None, None, NoOut)]
                       /\ turn' = [turn EXCEPT ![t] = tr]
                       /\ UNCHANGED << pc, lastExec, lastTool >>
                   ELSE
                       /\ pending_preview_id' = after_unclear(pending_preview_id)
                       /\ result' = [result EXCEPT ![t] =
                              Result("awaiting_confirmation", "I didn't catch that.",
                                     None, None, None, NoOut)]
                       /\ turn' = [turn EXCEPT ![t] = tr]
                       /\ UNCHANGED << pc, lastExec, lastTool >>
           ELSE
               \* response = await self.run(...)
               /\ pc' = [pc EXCEPT ![t] = "run_wait"]
               /\ turn' = [turn EXCEPT ![t] = [tr0 EXCEPT !.agent = TRUE]]
               /\ result' = [result EXCEPT ![t] = NoResult]
               /\ UNCHANGED << pending_preview_id, lastExec, lastTool >>

\* the preview_id in the result of a create_payment_preview call that
\* succeeded (kept when it is an id the agent's response can name)
CreatedPreview(call, out) ==
    IF /\ call.tool = "create_payment_preview"
       /\ out.t = "json" /\ out.error = None /\ out.val \in PreviewIds
    THEN { out.val } ELSE { }

\* while self.run(...) is under way the agent invokes one of its tools
agent_tool_call(t, call, resp) ==
    /\ pc[t] = "run_wait"
    /\ turn[t].tools < MaxToolCalls
    /\ LET out == Invoke(call, resp)
       IN  /\ turn' = [turn EXCEPT
                  ![t].tools = @ + 1,
                  ![t].net = @ + out.net,
                  ![t].execs = @ + (IF call.tool = "execute_payment" THEN 1 ELSE 0),
                  ![t].created = @ \cup CreatedPreview(call, out)]
           /\ lastExec' =
                  IF call.tool = "execute_payment"
                  THEN [ by |-> "agent", user_id |-> call.user_id,
                         preview_id |-> call.preview_id,
                         pending |-> pending_preview_id,
                         status |-> turn[t].status ]
                  ELSE lastExec
    /\ UNCHANGED << pending_preview_id, pc, result, lastTool >>

\* lines 142-158: self.run(...) returned response
agent_return(t, response) ==
    /\ pc[t] = "run_wait"
    /\ pc' = [pc EXCEPT ![t] = "ready"]
    /\ IF HasConfirmMarker(response) THEN
           LET preview_id == extract_preview_id(response)
           IN  /\ pending_preview_id' =
                      IF Truthy(preview_id) THEN preview_id ELSE pending_preview_id
               /\ result' = [result EXCEPT ![t] =
                      Result("preview", "<agent response>", None, None, preview_id, NoOut)]
       ELSE
           /\ result' = [result EXCEPT ![t] =
                  Result("info", "<agent response>", None, None, None, NoOut)]
           /\ UNCHANGED pending_preview_id
    /\ UNCHANGED << turn, lastExec, lastTool >>

\* ------------------------------------------------------------------------
\* A tool invoked on its own, and the classifier applied to an utterance
\* ------------------------------------------------------------------------
\* lastTool holds the arguments and the backend's answer; execute() runs
tool_invocation ==
    /\ lastTool.call.tool # "none"
    /\ lastTool.out.t = "none"
    /\ lastTool' = [lastTool EXCEPT !.out = Invoke(lastTool.call, lastTool.resp)]
    /\ UNCHANGED << pending_preview_id, pc, turn, result, lastExec >>

\* turn[1].utt holds the transcript; _check_confirmation runs
classify ==
    /\ turn[1].op = "transcript"
    /\ turn' = [turn EXCEPT ![1].status = check_confirmation(turn[1].utt),
                            ![1].op = "_check_confirmation"]
    /\ UNCHANGED << pending_preview_id, pc, result, lastExec, lastTool >>

\* ------------------------------------------------------------------------
\* Specifications
\* ------------------------------------------------------------------------
\* one process_voice_input call at a time (the single-turn flow)
Next ==
    \/ \E u \in Corpus : process_voice_input(1, u)
    \/ \E call \in ToolCalls, resp \in Answers : agent_tool_call(1, call, resp)
    \/ \E response \in AgentResponses : agent_return(1, response)
    \/ \E resp \in Answers : execute_pending_payment_return(1, resp)

Spec == Init /\ [][Next]_vars

\* the same, with _execute_pending_payment also callable on its own
NextDirect ==
    \/ Next
    \/ execute_pending_payment(1)

SpecDirect == Init /\ [][NextDirect]_vars

\* two process_voice_input calls on the same session, each suspended at its
\* await while the other runs (the method is a coroutine and the session
\* holds no lock); utterances, tool calls, answers and responses are a few
\* of each kind
ConcUtterances == { <<"y","e","s">>, <<"n","o">>, <<"h","m","m">> }

ConcToolCalls ==
    { call \in ToolCalls :
          /\ call.tool \in { "create_payment_preview", "execute_payment" }
          /\ call.user_id = UserId
          /\ call.preview_id \in { None, "p1-uuid" } }

ConcAnswers ==
    { resp \in Answers :
          \/ resp.kind = "timeout"
          \/ resp.code = 200 /\ resp.body = "full" /\ resp.val = "0xaaa"
          \/ resp.code = 409 /\ resp.body = "empty" }

ConcResponses ==
    { response \in AgentResponses :
          \A i \in 1..Len(response) :
              response[i] = IF i = 1 THEN [ k |-> "confirm", v |-> None ]
                            ELSE [ k |-> "uuid", v |-> "p1-uuid" ] }

NextConc ==
    \E t \in Callers :
        \/ \E u \in ConcUtterances : process_voice_input(t, u)
        \/ \E call \in ConcToolCalls, resp \in ConcAnswers :
               agent_tool_call(t, call, resp)
        \/ \E response \in ConcResponses : agent_return(t, response)
        \/ \E resp \in ConcAnswers : execute_pending_payment_return(t, resp)

SpecConc == Init /\ [][NextConc]_vars

\* each tool invoked on its own, with every argument and backend answer
InitTools ==
    /\ pending_preview_id = None
    /\ pc = [t \in Callers |-> "ready"]
    /\ turn = [t \in Callers |-> NoTurn]
    /\ result = [t \in Callers |-> NoResult]
    /\ lastExec = NoExec
    /\ lastTool \in [ call : ToolCalls, resp : Answers, out : { NoOut } ]

NextTools == tool_invocation

SpecTools == InitTools /\ [][NextTools]_vars

\* the classifier applied to every utterance
InitClassifier ==
    /\ pending_preview_id = None
    /\ pc = [t \in Callers |-> "ready"]
    /\ \E u \in Corpus \cup Generated :
           turn = [t \in Callers |->
                      IF t = 1 THEN [NoTurn EXCEPT !.utt = u, !.op = "transcript"]
                      ELSE NoTurn]
    /\ result = [t \in Callers |-> NoResult]
    /\ lastExec = NoExec
    /\ lastTool = NoToolInvocation

NextClassifier == classify

SpecClassifier == InitClassifier /\ [][NextClassifier]_vars

\* ------------------------------------------------------------------------
\* Properties
\* ------------------------------------------------------------------------
\* the normalised utterance contains a phrase of the list
HasPhrase(phrases, transcript) ==
    \E i \in DOMAIN phrases : Contains(phrases[i], Strip(Lower(transcript)))

HasConfirmPhrase(transcript) == HasPhrase(confirm_phrases, transcript)
HasCancelPhrase(transcript) == HasPhrase(cancel_phrases, transcript)

\* the last call of caller 1 was process_voice_input and has ended
TurnEnded == pc[1] = "ready" /\ turn[1].op = "process_voice_input"

\* the backend reported the payment as done: 200 with a body carrying tx_hash
BackendSuccess(resp) == resp.kind = "http" /\ resp.code = 200 /\ resp.body = "full"

\* C1: once an execute attempt started by _execute_pending_payment has ended,
\* whatever the backend's answer was, pending_preview_id is empty.
C1_PendingClearedAfterExecute ==
    (pc[1] = "ready" /\ turn[1].sent # None) => pending_preview_id = None

\* C2: every execute_payment invocation, the agent's own tool calls included,
\* is made while a preview id is pending, with that id, and after the
\* utterance of that call was classified confirmed.
C2_ExecuteOnlyAfterConfirmation ==
    lastExec.by # "none" =>
        /\ Truthy(lastExec.pending)
        /\ lastExec.preview_id = lastExec.pending
        /\ lastExec.status = "confirmed"

\* C3: a confirmed utterance while preview p is pending makes exactly one
\* execute_payment invocation, with p and the session's user id; when the
\* backend reports success the call returns action "confirmed" with the
\* backend's tx_hash and the session is idle.
C3_ConfirmedExecutesPending ==
    (turn[1].op = "process_voice_input" /\ Truthy(turn[1].start)
        /\ turn[1].status = "confirmed") =>
        /\ turn[1].execs = 1
        /\ turn[1].net = 1
        /\ turn[1].sent = turn[1].start
        /\ lastExec = [ by |-> "session", user_id |-> UserId,
                        preview_id |-> turn[1].start,
                        pending |-> turn[1].start, status |-> "confirmed" ]
        /\ (pc[1] = "ready" /\ BackendSuccess(turn[1].resp)) =>
               /\ result[1].action = "confirmed"
               /\ result[1].tx_hash = turn[1].resp.val
               /\ pending_preview_id = None

C3_Witness ==
    /\ TurnEnded
    /\ turn[1].start = "p1-uuid"
    /\ turn[1].status = "confirmed"
    /\ BackendSuccess(turn[1].resp)
    /\ lastExec.preview_id = "p1-uuid"
    /\ result[1].action = "confirmed"
    /\ result[1].tx_hash = "0xbbb"
    /\ pending_preview_id = None

\* C4: a cancelled utterance while a preview is pending clears the pending
\* id and returns action "cancelled" without any outbound request, execute
\* invocation, tool invocation or agent run in that call.
C4_CancelClearsWithoutNetwork ==
    (turn[1].op = "process_voice_input" /\ turn[1].status = "cancelled") =>
        /\ pc[1] = "ready"
        /\ Truthy(turn[1].start)
        /\ pending_preview_id = None
        /\ result[1].action = "cancelled"
        /\ turn[1].net = 0
        /\ turn[1].execs = 0
        /\ turn[1].tools = 0
        /\ turn[1].sent = None
        /\ ~turn[1].agent

C4_Witness ==
    /\ TurnEnded
    /\ turn[1].status = "cancelled"
    /\ turn[1].start = "p2-uuid"
    /\ pending_preview_id = None
    /\ result[1].action = "cancelled"
    /\ turn[1].net = 0

NoPendingMessage == "No pending payment to execute."

\* C5 (as stated): with no preview pending, process_voice_input with an
\* utterance the classifier would label confirmed returns "no pending
\* payment" and execute_payment is not called.
C5_IdleConfirmSaysNoPending ==
    (TurnEnded /\ turn[1].start = None
        /\ check_confirmation(turn[1].utt) = "confirmed") =>
        /\ result[1].response = NoPendingMessage
        /\ turn[1].execs = 0

\* C5 (amended): with no preview pending, _execute_pending_payment returns
\* the "No pending payment to execute." error without any request and leaves
\* the session idle; process_voice_input never gives that answer: with no
\* preview pending it does not consult the classifier and hands the
\* utterance to the agent, returning action info or preview.
C5_NoPendingOnlyFromExecuteStep ==
    /\ (turn[1].op = "_execute_pending_payment" /\ turn[1].start = None) =>
           /\ pc[1] = "ready"
           /\ result[1].action = "error"
           /\ result[1].response = NoPendingMessage
           /\ turn[1].execs = 0
           /\ turn[1].net = 0
           /\ pending_preview_id = None
    /\ (turn[1].op = "process_voice_input" /\ turn[1].start = None) =>
           /\ turn[1].agent
           /\ turn[1].status = "none"
           /\ result[1].response # NoPendingMessage
           /\ pc[1] = "ready" => result[1].action \in { "info", "preview" }

C5_Witness ==
    /\ pc[1] = "ready"
    /\ turn[1].op = "_execute_pending_payment"
    /\ turn[1].start = None
    /\ result[1].response = NoPendingMessage
    /\ result[1].action = "error"
    /\ turn[1].execs = 0
    /\ pending_preview_id = None

\* C6 (as stated): an utterance with no confirm and no cancel phrase is
\* classified unclear and processing it leaves pending_preview_id as it was,
\* whether the session was idle or awaiting confirmation.
C6_NoPhraseKeepsPending ==
    (TurnEnded /\ ~HasConfirmPhrase(turn[1].utt) /\ ~HasCancelPhrase(turn[1].utt)) =>
        /\ check_confirmation(turn[1].utt) = "unclear"
        /\ pending_preview_id = turn[1].start

\* C6 (amended): an utterance with no confirm and no cancel phrase is
\* classified unclear, and processing it while a preview is pending leaves
\* pending_preview_id as it was and returns action awaiting_confirmation;
\* with no preview pending the utterance goes to the agent instead.
C6_NoPhraseKeepsPendingWhenAwaiting ==
    (turn[1].op = "process_voice_input"
        /\ ~HasConfirmPhrase(turn[1].utt) /\ ~HasCancelPhrase(turn[1].utt)) =>
        /\ check_confirmation(turn[1].utt) = "unclear"
        /\ IF Truthy(turn[1].start)
           THEN /\ turn[1].status = "unclear"
                /\ pc[1] = "ready"
                /\ pending_preview_id = turn[1].start
                /\ result[1].action = "awaiting_confirmation"
           ELSE turn[1].agent

C6_Witness ==
    /\ TurnEnded
    /\ turn[1].utt = <<"h","m","m">>
    /\ turn[1].start = "q1-opaque"
    /\ turn[1].status = "unclear"
    /\ pending_preview_id = "q1-opaque"
    /\ result[1].action = "awaiting_confirmation"

\* C7: an utterance whose lower-cased, trimmed text contains a confirm phrase
\* and a cancel phrase is classified confirmed, whatever the letter case and
\* whichever phrase comes first.
C7_ConfirmWinsOverCancel ==
    (turn[1].op = "_check_confirmation"
        /\ HasConfirmPhrase(turn[1].utt) /\ HasCancelPhrase(turn[1].utt)) =>
        turn[1].status = "confirmed"

C7_Witness ==
    /\ turn[1].op = "_check_confirmation"
    /\ turn[1].utt = <<"N","O",","," ","s","t","o","p","."," ","Y","e","s">>
    /\ HasConfirmPhrase(turn[1].utt)
    /\ HasCancelPhrase(turn[1].utt)
    /\ turn[1].status = "confirmed"

\* C8: when the confirmed execute is answered with a status other than 200,
\* the call returns action "error" and the session is idle; for 409 the
\* error says the payment was already executed.
C8_ErrorStatusSurfacedAndCleared ==
    (TurnEnded /\ turn[1].status = "confirmed"
        /\ turn[1].resp.kind = "http" /\ turn[1].resp.code # 200) =>
        /\ result[1].action = "error"
        /\ result[1].response = "Payment failed: "
        /\ pending_preview_id = None
        /\ turn[1].resp.code = 409 => result[1].detail = "Payment already executed"

C8_Witness ==
    /\ TurnEnded
    /\ turn[1].status = "confirmed"
    /\ turn[1].resp.kind = "http"
    /\ turn[1].resp.code = 409
    /\ result[1].action = "error"
    /\ result[1].detail = "Payment already executed"
    /\ pending_preview_id = None

\* C9: when the execute request times out, the tool's result and the result
\* of process_voice_input are both the ambiguous "may still be processing"
\* status, neither a success nor a failure, and one request was made.
C9_TimeoutSurfacedAsAmbiguous ==
    (TurnEnded /\ turn[1].resp.kind = "timeout") =>
        /\ execute_payment(UserId, turn[1].sent, turn[1].resp).warning
               = "Transaction may still be processing"
        /\ execute_payment(UserId, turn[1].sent, turn[1].resp).error = None
        /\ ~execute_payment(UserId, turn[1].sent, turn[1].resp).success
        /\ turn[1].execs = 1
        /\ result[1].action \notin { "confirmed", "error" }
        /\ result[1].response # "Payment failed: "

\* C10: no tool's execute() lets an exception out, whatever the backend
\* answers.
C10_ToolsNeverRaise == lastTool.out.t # "raise"

\* a tool has been invoked on its own and has ended
ToolDone == lastTool.call.tool # "none" /\ lastTool.out.t # "none"

\* the arguments fail the tool's input validation
ValidationFails(call) ==
    \/ /\ call.tool = "convert_fiat_to_gas"
       /\ (call.amount <= 0 \/ Upper(call.currency) \notin SupportedCurrencies)
    \/ /\ call.tool = "resolve_tag"
       /\ Strip(Lower(LStripSet(call.tag, { "@" }))) = <<>>

ValidationErrors ==
    { "Unsupported currency", "Amount must be positive", "Empty tag provided" }

\* C11: a tool invocation makes at most one outbound request: none, and a
\* validation error as its result, when its arguments fail validation
\* (amount <= 0, unsupported currency, empty tag); exactly one otherwise.
C11_AtMostOneRequest ==
    ToolDone =>
        /\ lastTool.out.net \in { 0, 1 }
        /\ IF ValidationFails(lastTool.call)
           THEN /\ lastTool.out.net = 0
                /\ lastTool.out.t = "json"
                /\ lastTool.out.error \in ValidationErrors
           ELSE /\ lastTool.out.net = 1
                /\ lastTool.out.error \notin ValidationErrors

C11_Witness ==
    /\ ToolDone
    /\ lastTool.call.tool = "convert_fiat_to_gas"
    /\ lastTool.call.amount = 0
    /\ lastTool.call.currency = <<"u","s","d">>
    /\ lastTool.resp.kind = "http"
    /\ lastTool.resp.code = 200
    /\ lastTool.out.error = "Amount must be positive"
    /\ lastTool.out.net = 0

\* C12: when a turn that started idle ends with action "preview", the session
\* holds a non-empty preview id, the one in the result's data.preview_id, and
\* so awaits confirmation.
C12_PreviewActionRecordsId ==
    (TurnEnded /\ turn[1].start = None /\ result[1].action = "preview") =>
        /\ Truthy(pending_preview_id)
        /\ pending_preview_id = result[1].preview_id

\* a tool has ended on an HTTP answer to the request it made
ToolAnswered ==
    ToolDone /\ lastTool.out.net = 1 /\ lastTool.resp.kind = "http"

\* the result is an error result
ReportedAsError(out) == out.t = "json" /\ out.error # None

\* the status codes the claim calls known
KnownCodes == { 404, 403, 409, 429, 402 }

\* C13 (as stated): for every tool, an HTTP answer is reported as an error
\* exactly when its status is not 2xx; 404, 403, 409, 429 and 402 give a
\* message of their own, every other non-2xx status the generic error that
\* carries the status code.
C13_ErrorIffNon2xx ==
    ToolAnswered =>
        /\ ReportedAsError(lastTool.out) <=> lastTool.resp.code \notin 200..299
        /\ lastTool.resp.code \in KnownCodes =>
               ReportedAsError(lastTool.out) /\ lastTool.out.code = 0
        /\ lastTool.resp.code \notin (200..299) \cup KnownCodes =>
               ReportedAsError(lastTool.out)
               /\ lastTool.out.code = lastTool.resp.code

\* the statuses a tool answers with a message of its own
HandledCodes(tool) ==
    CASE tool = "execute_payment" -> { 404, 403, 409 }
      [] tool = "create_payment_preview" -> { 400, 403 }
      [] tool = "check_balance" -> { 404 }
      [] tool = "resolve_tag" -> { 404 }
      [] tool = "generate_video" -> { 402, 403, 429 }
      [] OTHER -> { }

\* the answers on which execute() ends with an exception
AnswerRaises(tool, resp) ==
    \/ /\ resp.body \in { "notjson", "nonobject" }
       /\ resp.code = 200 \/ (tool = "create_payment_preview" /\ resp.code = 400)
    \/ tool = "execute_payment" /\ resp.code = 200 /\ resp.body = "empty"

\* C13 (amended): a tool that returns on an HTTP answer reports an error
\* exactly when the status is not 200, 2xx statuses other than 200 included;
\* a status the tool handles gives its own message without the status code,
\* every other status the tool's generic error carrying the status code;
\* the tool raises instead on a 200 (create_payment_preview: or 400) body
\* that is no JSON object, and execute_payment on a 200 without tx_hash.
C13_ErrorIffNot200 ==
    ToolAnswered =>
        IF AnswerRaises(lastTool.call.tool, lastTool.resp)
        THEN lastTool.out.t = "raise"
        ELSE /\ lastTool.out.t = "json"
             /\ ReportedAsError(lastTool.out) <=> lastTool.resp.code # 200
             /\ lastTool.resp.code # 200 =>
                    lastTool.out.code =
                        IF lastTool.resp.code \in HandledCodes(lastTool.call.tool)
                        THEN 0 ELSE lastTool.resp.code

C13_Witness ==
    /\ ToolAnswered
    /\ lastTool.call.tool = "check_balance"
    /\ lastTool.resp.code = 201
    /\ lastTool.resp.body = "full"
    /\ lastTool.out.error = "Failed to check balance: <status>"
    /\ lastTool.out.code = 201

\* C14: an utterance classified unclear while a preview is pending leaves
\* pending_preview_id as it was, reaches neither execute_payment nor the agent,
\* makes no request and returns action awaiting_confirmation; the turn ends
\* awaiting confirmation of the same id, so this holds of every further
\* unclear utterance as well.
C14_UnclearKeepsPending ==
    (turn[1].op = "process_voice_input"
        /\ Truthy(turn[1].start) /\ turn[1].status = "unclear") =>
        /\ pc[1] = "ready"
        /\ pending_preview_id = turn[1].start
        /\ result[1].action = "awaiting_confirmation"
        /\ ~turn[1].agent
        /\ turn[1].sent = None
        /\ turn[1].execs = 0 /\ turn[1].tools = 0 /\ turn[1].net = 0

C14_Witness ==
    /\ TurnEnded
    /\ turn[1].utt = <<"W","h","a","t","'","s"," ","m","y"," ","b","a","l","a","n","c","e","?">>
    /\ turn[1].start = "p2-uuid"
    /\ turn[1].status = "unclear"
    /\ ~turn[1].agent
    /\ turn[1].execs = 0
    /\ pending_preview_id = "p2-uuid"
    /\ result[1].action = "awaiting_confirmation"

\* a tag without its letter case, surrounding whitespace and leading "@"
TagNormalForm(tag) == Strip(LStripSet(Strip(Lower(tag)), { "@" }))

\* C15: resolve_tag called with tags that differ only in a leading "@", in
\* letter case or in surrounding whitespace requests the same path and returns
\* the same canonical tag; normalising twice gives what normalising once
\* gives; a tag that normalises to nothing is rejected as empty without a
\* request.
C15_TagNormalisation ==
    (ToolDone /\ lastTool.call.tool = "resolve_tag") =>
        /\ clean_tag(clean_tag(lastTool.call.tag)) = clean_tag(lastTool.call.tag)
        /\ \A other \in Tags :
               TagNormalForm(other) = TagNormalForm(lastTool.call.tag) =>
                   /\ clean_tag(other) = clean_tag(lastTool.call.tag)
                   /\ resolve_tag(other, lastTool.resp).tag = lastTool.out.tag
        /\ TagNormalForm(lastTool.call.tag) = <<>> =>
               /\ lastTool.out.error = "Empty tag provided"
               /\ lastTool.out.net = 0

\* C16: however two process_voice_input calls on one session interleave, they
\* never both read the same recorded preview id and both submit it to
\* execute_payment before it is cleared.
C16_ExecuteAtMostOncePerPreview ==
    ~ /\ pc[1] = "exec_wait"
      /\ pc[2] = "exec_wait"
      /\ turn[1].sent = pending_preview_id
      /\ turn[2].sent = pending_preview_id

\* C17: in the single-turn flow an utterance that arrives while a preview id
\* is pending is classified and never handed to the agent, and a non-empty
\* pending_preview_id is never replaced by another non-empty id: it changes
\* only from empty to an id, at the return of the agent in a turn that
\* started idle, and from an id to empty.
C17_PendingNeverReplaced ==
    /\ [][ \/ pending_preview_id' = pending_preview_id
           \/ /\ ~Truthy(pending_preview_id)
              /\ Truthy(pending_preview_id')
              /\ turn'[1].start = None
              /\ turn'[1].agent
              /\ pc[1] = "run_wait"
           \/ /\ Truthy(pending_preview_id)
              /\ pending_preview_id' = None ]_vars
    /\ [] ( (turn[1].op = "process_voice_input" /\ Truthy(turn[1].start)) =>
                /\ turn[1].status \in { "confirmed", "cancelled", "unclear" }
                /\ ~turn[1].agent
                /\ turn[1].tools = 0
                /\ pc[1] # "run_wait" )

C17_Witness ==
    /\ TurnEnded
    /\ turn[1].start = None
    /\ turn[1].agent
    /\ result[1].action = "preview"
    /\ pending_preview_id = "p2-uuid"
    /\ lastExec.by = "session"
    /\ lastExec.preview_id = "p1-uuid"

\* C18: when a turn leaves pending_preview_id non-empty where it was empty,
\* the id is the preview_id that a successful create_payment_preview call
\* returned during that turn; a response that merely holds "confirm" and some
\* UUID-shaped text does not make the session await a confirmation.
C18_PendingIsCreatedPreview ==
    (TurnEnded /\ turn[1].start = None /\ Truthy(pending_preview_id)) =>
        pending_preview_id \in turn[1].created

====
